---------------------------- MODULE Spec2Model ----------------------------
(***************************************************************************)
(* Brain-connectivity prediction scripts of Team 17 (main.py) and Team 15  *)
(* (team15.py): the preprocessing pipeline (correlation reducer, per-column*)
(* OLS eliminator, leave-one-out outlier filter), the 5-fold               *)
(* cross-validation harnesses and the two submission writers.              *)
(*                                                                         *)
(* Numbers.  A feature or label value v of the model stands for v/100, so  *)
(* an integer matrix is a matrix of hundredths.  Quantities the code       *)
(* computes in floating point are kept exact: a mean is a fraction         *)
(* [num, den], a correlation is the triple of integer moments it is the    *)
(* quotient of, and a comparison with a threshold is the cross-multiplied  *)
(* integer comparison.                                                     *)
(*                                                                         *)
(* A DataFrame is a record [columns, index, values, origin]: the column    *)
(* labels, the row labels, the rows, and (a history field, not part of     *)
(* pandas) the original column number held by each position.  Original     *)
(* column labels are the numbers 1..m; a pandas RangeIndex is 0,1,2,...    *)
(*                                                                         *)
(* Regressors.  RidgeCV and the MultiOutputRegressor ensemble are the      *)
(* collaborators behind fit and predict; they are stood for by one         *)
(* deterministic regressor (the column means of the labels) that keeps what*)
(* scikit-learn checks: a fit needs samples and features, a predict needs  *)
(* the feature count of the fit.  The fitted model records the data it was *)
(* fitted on.                                                              *)
(*                                                                         *)
(* Specifications.  Spec: the two scripts from load_data to the written    *)
(* file.  SpecPre: one preprocessing call, statement by statement.         *)
(* SpecReducer: the correlation reducer applied twice.  SpecSplit: the two *)
(* KFold partitions.  SpecWriter: the two write_output functions.          *)
(***************************************************************************)
EXTENDS Integers, Sequences, FiniteSets, TLC

VARIABLES
    pc,                \* position of the running script or call
    call,              \* the arguments the running preprocessing call was given
    x_tra, y_tra, x_tst,       \* preprocessing: its three frames, as rebound
    columns,           \* preprocessing: the boolean mask, then the label array
    selected_columns,  \* preprocessing: labels kept by the correlation loop
    t1_temp,           \* preprocessing: the projected labels
    x,                 \* preprocessing: the feature array of the OLS loop
    i,                 \* preprocessing: index of the OLS loop
    error_samples,     \* preprocessing: fold numbers recorded as outliers
    cv_index,          \* preprocessing: leave-one-out fold counter
    raised,            \* the exception that ended the call or script, or "none"
    stdout,            \* what has been printed, in order
    team,              \* the script that runs: 15 or 17
    data,              \* the loaded frames: train_t0, train_t1, test_t0
    indices,           \* KFold's shuffled sample indices (seed 1)
    alt,               \* history: values that replace a fold's held-out rows
                       \*   in the second run the fold is compared with
    fold,              \* number of cross-validation folds completed
    metrics,           \* the per-fold metric lists of the cross-validation
    predictions,       \* the matrix handed to write_output
    file,              \* the submission file written
    log,               \* history: one entry per fit/predict pair
    split              \* the folds of the partition under study

preVars == <<call, x_tra, y_tra, x_tst, columns, selected_columns, t1_temp,
             x, i, error_samples, cv_index>>

mainVars == <<team, data, indices, alt, fold, metrics, predictions, file, log>>

vars == <<pc, raised, stdout, preVars, mainVars, split>>

----------------------------------------------------------------------------
(* Sequences and integer helpers *)

Range(s) == { s[k] : k \in DOMAIN s }

RECURSIVE SeqSum(_)
SeqSum(s) == IF s = << >> THEN 0 ELSE Head(s) + SeqSum(Tail(s))

Dot(a, b) == SeqSum([k \in DOMAIN a |-> a[k] * b[k]])

Abs(v) == IF v < 0 THEN -v ELSE v

\* F(v), v being computed once and handed to F as a value
Apply(F(_), v) == CHOOSE y \in { F(w) : w \in {v} } : TRUE

\* s[k] for the positions k (a sequence of positions), in that order
Take(s, positions) == [k \in DOMAIN positions |-> s[positions[k]]]

\* the positions of s whose element satisfies keep[_], ascending
RECURSIVE WhereTrue(_, _)
WhereTrue(keep, k) ==
    IF k > Len(keep) THEN << >>
    ELSE (IF keep[k] THEN <<k>> ELSE << >>) \o WhereTrue(keep, k + 1)

\* numpy.arange(a, b)
RECURSIVE Arange(_, _)
Arange(a, b) == IF a >= b THEN << >> ELSE <<a>> \o Arange(a + 1, b)

\* position (1-based) of the first occurrence of v in s, 0 when absent
RECURSIVE IndexOf(_, _, _)
IndexOf(s, v, k) ==
    IF k > Len(s) THEN 0 ELSE IF s[k] = v THEN k ELSE IndexOf(s, v, k + 1)

----------------------------------------------------------------------------
(* DataFrames and arrays *)

NRows(df) == Len(df.values)
NCols(df) == Len(df.columns)

\* column c (a position) of a matrix given as a sequence of rows
Column(values, c) == [r \in DOMAIN values |-> values[r][c]]

\* df.iloc[positions]: rows by position (0-based positions as sklearn yields them)
Iloc(df, positions) ==
    [df EXCEPT !.index  = [k \in DOMAIN positions |-> df.index[positions[k] + 1]],
               !.values = [k \in DOMAIN positions |-> df.values[positions[k] + 1]]]

\* df[labels] and pd.DataFrame(data=df, columns=labels): columns by label
SelectColumns(df, labels) ==
    LET pos == [k \in DOMAIN labels |-> IndexOf(df.columns, labels[k], 1)]
    IN  [columns |-> labels,
         index   |-> df.index,
         values  |-> [r \in DOMAIN df.values |-> Take(df.values[r], pos)],
         origin  |-> Take(df.origin, pos)]

\* pd.DataFrame(data=array, columns=labels): fresh RangeIndex on the rows
FrameOfArray(values, labels, origin) ==
    [columns |-> labels,
     index   |-> Arange(0, Len(values)),
     values  |-> values,
     origin  |-> origin]

\* df.reset_index().drop("index", axis=1)
ResetIndex(df) == [df EXCEPT !.index = Arange(0, Len(df.values))]

\* df.drop(labels): drop the rows whose index label is in labels
DropRows(df, labels) ==
    LET keep == [k \in DOMAIN df.index |-> df.index[k] \notin Range(labels)]
        pos  == WhereTrue(keep, 1)
    IN  [df EXCEPT !.index = Take(df.index, pos), !.values = Take(df.values, pos)]

\* pd.DataFrame(df.values): labels are lost, rows and columns renumbered
FrameOfValues(df) ==
    [columns |-> Arange(0, Len(df.columns)),
     index   |-> Arange(0, Len(df.values)),
     values  |-> df.values,
     origin  |-> df.origin]

----------------------------------------------------------------------------
(* Input data *)

\* Largest column count of a matrix handed to the Feature Reducer alone.
RedMaxCols == 3
\* Largest row count of a matrix handed to the Feature Reducer alone.
RedMaxRows == 4

Patterns == {"ramp", "down", "bent", "hook", "flat", "step", "alt"}

\* The value (in hundredths) a column of the given shape holds in row r of n.
PatternValue(p, r, n) ==
    CASE p = "ramp" -> 2 + r
      [] p = "down" -> 2 + (n + 1 - r)
      [] p = "bent" -> 2 + r + (IF r >= n THEN 2 ELSE 0)
      [] p = "hook" -> 2 + r + (IF r >= n THEN 5 ELSE 0)
      [] p = "flat" -> 5
      [] p = "step" -> IF 2 * r > n THEN 6 ELSE 4
      [] p = "alt"  -> r % 2
      [] p = "peak" -> IF r >= n THEN n + 4 ELSE 5

\* rows first..last of the matrix whose column c has shape shapes[c]
PatternRows(shapes, first, last, n) ==
    [k \in 1..(last - first + 1) |->
        [c \in DOMAIN shapes |-> PatternValue(shapes[c], first + k - 1, n)]]

\* A loaded DataFrame: original column labels 1..m, row labels as given.
Loaded(values, m, index) ==
    [columns |-> Arange(1, m + 1), index |-> index, values |-> values,
     origin  |-> Arange(1, m + 1)]

\* every choice of 2..maxCols column shapes among the given ones
ShapeSeqs(shapes, maxCols) == UNION { [1..m -> shapes] : m \in 2..maxCols }

\* Increments a label row can carry over its feature row (hundredths).
Spikes == {3, 9}

\* Labels: the features, row `row` (if any) raised by `size` in every column.
SpikedRows(rows, row, size) ==
    [r \in DOMAIN rows |-> [c \in DOMAIN rows[r] |->
        rows[r][c] + (IF r = row THEN size ELSE 0)]]

----------------------------------------------------------------------------
(* Feature Reducer: src/Team 17/main.py, preprocessing, lines 90-106 *)

\* corr.iloc[i,j] >= 0.9, in tenths
CorrThresholdTenths == 9

\* One entry of DataFrame.corr(): Pearson's r of columns a and b is
\* c / sqrt(va * vb); it is NaN when either variance is 0.
Moments(a, b) ==
    LET n == Len(a)
    IN  [c  |-> n * Dot(a, b) - SeqSum(a) * SeqSum(b),
         va |-> n * Dot(a, a) - SeqSum(a) * SeqSum(a),
         vb |-> n * Dot(b, b) - SeqSum(b) * SeqSum(b)]

\* corr = x_tra.corr()
Corr(df) ==
    [a \in 1..NCols(df) |-> [b \in 1..NCols(df) |->
        Moments(Column(df.values, a), Column(df.values, b))]]

IsNaN(e) == e.va = 0 \/ e.vb = 0

\* e >= t/10 for a correlation entry e; a comparison with NaN is False
CorrAtLeast(e, t) ==
    /\ ~IsNaN(e)
    /\ e.c > 0
    /\ 100 * e.c * e.c >= t * t * e.va * e.vb

\* e is defined and |e| >= t/10
AbsCorrAtLeast(e, t) ==
    /\ ~IsNaN(e)
    /\ 100 * e.c * e.c >= t * t * e.va * e.vb

\* Faulty variant of HighlyCorrelated: the test taken on the absolute value.
HighlyCorrelatedAbs(corr, a, b) == AbsCorrAtLeast(corr[a][b], CorrThresholdTenths)

\* the test of line 98 on entry (a, b) of corr
HighlyCorrelated(corr, a, b) == CorrAtLeast(corr[a][b], CorrThresholdTenths)

\* Faulty variant of MaskLoop: the inner loop stops after the neighbouring column.
RECURSIVE MaskLoopNeighbour(_, _, _, _)
MaskLoopNeighbour(corr, mask, a, b) ==
    IF a > Len(corr) THEN mask
    ELSE IF b > Len(corr) \/ b > a + 1 THEN MaskLoopNeighbour(corr, mask, a + 1, a + 2)
    ELSE IF HighlyCorrelated(corr, a, b) /\ mask[b]
         THEN MaskLoopNeighbour(corr, [mask EXCEPT ![b] = FALSE], a, b + 1)
         ELSE MaskLoopNeighbour(corr, mask, a, b + 1)

\* The loops of lines 95-100 from pair (a, b) on; positions are 1-based.
RECURSIVE MaskLoop(_, _, _, _)
MaskLoop(corr, mask, a, b) ==
    IF a > Len(corr) THEN mask
    ELSE IF b > Len(corr) THEN MaskLoop(corr, mask, a + 1, a + 2)
    ELSE IF HighlyCorrelated(corr, a, b) /\ mask[b]
         THEN MaskLoop(corr, [mask EXCEPT ![b] = FALSE], a, b + 1)
         ELSE MaskLoop(corr, mask, a, b + 1)

\* columns = np.full(..., True); the pairwise loop
CorrelationMask(df) ==
    MaskLoop(Corr(df), [c \in 1..NCols(df) |-> TRUE], 1, 2)

\* Lines 90-106, and the projection of the test set (line 124) by the same labels.
FeatureReducer(xtra, ytra, xtst) ==
    LET mask     == CorrelationMask(xtra)
        selected == Take(xtra.columns, WhereTrue(mask, 1))
    IN  [mask             |-> mask,
         selected_columns |-> selected,
         t0               |-> SelectColumns(xtra, selected),
         t1_temp          |-> SelectColumns(ytra, selected),
         x_tst            |-> SelectColumns(xtst, selected)]

----------------------------------------------------------------------------
(* Backward Eliminator: src/Team 17/main.py, preprocessing, lines 108-124 *)

\* Square, in hundredths, of the two-sided 5% critical value of Student's t with
\* df degrees of freedom: a p-value exceeds 0.05 exactly when t*t is below it.
TCritSq100(df) ==
    CASE df = 1 -> 16145 [] df = 2 -> 1851 [] df = 3 -> 1013 [] df = 4 -> 771
      [] df = 5 -> 661   [] df = 6 -> 599  [] df = 7 -> 559  [] df = 8 -> 532
      [] OTHER -> 384

\* SMM.OLS(Y_temp, x_temp).fit().pvalues: regression through the origin on one
\* regressor has one coefficient.  Its t statistic squared is t2num / t2den, with
\* df = n - 1 residual degrees of freedom; the p-value is NaN when the
\* regressor is all zero, when df = 0, or when slope and residual are both 0.
PValues(Y_temp, x_temp) ==
    LET sxy == Dot(x_temp, Y_temp)
        sxx == Dot(x_temp, x_temp)
        syy == Dot(Y_temp, Y_temp)
        df  == Len(x_temp) - 1
        rss == sxx * syy - sxy * sxy
    IN  << [t2num |-> sxy * sxy * df,
            t2den |-> rss,
            df    |-> df,
            nan   |-> sxx = 0 \/ df <= 0 \/ (rss = 0 /\ sxy = 0)] >>

\* max(regressor.pvalues) of a one-element array
MaxPValue(pvalues) == pvalues[1]

\* p > 0.05 (line 117); False for NaN, and for t infinite (p = 0)
PValueExceeds(p) ==
    /\ ~p.nan
    /\ p.t2den > 0
    /\ p.t2num * 100 < TCritSq100(p.df) * p.t2den

\* np.delete(arr, obj, axis) for an array of ndim dimensions (obj 0-based):
\* numpy raises AxisError when axis is not below ndim.
NpDelete(arr, ndim, obj, axis) ==
    IF axis >= ndim THEN [raised |-> "AxisError", value |-> arr]
    ELSE IF ndim = 1
         THEN [raised |-> "none",
               value  |-> Take(arr, WhereTrue([k \in DOMAIN arr |-> k # obj + 1], 1))]
    ELSE IF axis = 0
         THEN [raised |-> "none",
               value  |-> Take(arr, WhereTrue([k \in DOMAIN arr |-> k # obj + 1], 1))]
    ELSE [raised |-> "none",
          value  |-> [r \in DOMAIN arr |->
              Take(arr[r], WhereTrue([k \in DOMAIN arr[r] |-> k # obj + 1], 1))]]

\* Faulty variant of DeleteFeature: the column is deleted from x itself and the label
\* array is left as it was.
DeleteFeatureKeepLabels(x_temp, xarr, labels, j) ==
    [raised |-> "none", x |-> NpDelete(xarr, 2, j, 1).value, columns |-> labels]

\* Lines 120-122: x_temp is the one-dimensional column x[:, i].
DeleteFeature(x_temp, xarr, labels, j) ==
    LET d1 == NpDelete(x_temp, 1, j, 1)
    IN  IF d1.raised # "none"
        THEN [raised |-> d1.raised, x |-> xarr, columns |-> labels]
        ELSE LET d2 == NpDelete(d1.value, 1, j, 1)
             IN  IF d2.raised # "none"
                 THEN [raised |-> d2.raised, x |-> xarr, columns |-> labels]
                 ELSE [raised  |-> "none",
                       x       |-> d2.value,
                       columns |-> NpDelete(labels, 1, j, 0).value]

\* Lines 118-122 from j on: pvalues[j] raises IndexError past the array's end.
RECURSIVE EliminatorInner(_, _, _, _, _, _, _)
EliminatorInner(pvalues, maxVar, x_temp, xarr, labels, j, stop) ==
    IF j >= stop THEN [raised |-> "none", x |-> xarr, columns |-> labels]
    ELSE IF j + 1 > Len(pvalues)
         THEN [raised |-> "IndexError", x |-> xarr, columns |-> labels]
    ELSE IF pvalues[j + 1] = maxVar
         THEN LET d == DeleteFeature(x_temp, xarr, labels, j)
              IN  IF d.raised # "none" THEN d
                  ELSE EliminatorInner(pvalues, maxVar, x_temp, d.x, d.columns,
                                       j + 1, stop)
    ELSE EliminatorInner(pvalues, maxVar, x_temp, xarr, labels, j + 1, stop)

\* One iteration (index k, 0-based) of the loop of lines 112-122.
EliminatorPass(xarr, yarr, labels, k, numVars) ==
    LET Y_temp  == Column(yarr, k + 1)
        x_temp  == Column(xarr, k + 1)
        pvalues == PValues(Y_temp, x_temp)
        maxVar  == MaxPValue(pvalues)
    IN  IF PValueExceeds(maxVar)
        THEN EliminatorInner(pvalues, maxVar, x_temp, xarr, labels, 0, numVars - k)
        ELSE [raised |-> "none", x |-> xarr, columns |-> labels]

\* The loop of lines 112-122 from iteration k on.
RECURSIVE EliminatorLoop(_, _, _, _, _)
EliminatorLoop(xarr, yarr, labels, k, numVars) ==
    IF k >= numVars THEN [raised |-> "none", x |-> xarr, columns |-> labels]
    ELSE LET r == EliminatorPass(xarr, yarr, labels, k, numVars)
         IN  IF r.raised # "none" THEN r
             ELSE EliminatorLoop(r.x, yarr, r.columns, k + 1, numVars)

----------------------------------------------------------------------------
(* Model Adapter: train_model, predict, error_func *)

\* train_model: the fitted estimator is a function of the training frames, which
\* it keeps; scikit-learn refuses an empty or mismatched training set.  The
\* prediction it stands for is the column mean of the labels (ridge regression
\* at the strong-penalty end of the alphas of line 162).
train_model(xtrain, ytrain) ==
    IF NRows(xtrain) = 0 \/ NCols(xtrain) = 0 \/ NRows(xtrain) # NRows(ytrain)
    THEN [raised |-> "ValueError"]
    ELSE [raised     |-> "none",
          n_features |-> NCols(xtrain),
          features   |-> xtrain.origin,
          fit_x      |-> xtrain.values,
          fit_y      |-> ytrain.values,
          n_samples  |-> NRows(xtrain),
          sums       |-> [c \in 1..NCols(ytrain) |->
                             SeqSum(Column(ytrain.values, c))]]

\* model.predict(x_tst): one row per test row, one fraction per label column;
\* scikit-learn refuses a matrix whose feature count differs from the fit's.
predict(xtst, model) ==
    IF NCols(xtst) # model.n_features
    THEN [raised |-> "ValueError", values |-> << >>]
    ELSE [raised |-> "none",
          values |-> [r \in 1..NRows(xtst) |-> [c \in DOMAIN model.sums |->
                        [num |-> model.sums[c], den |-> model.n_samples]]]]

\* Faulty variant of Flatten: column after column (Fortran order).
FlattenColumnMajor(rows) ==
    IF rows = << >> THEN << >>
    ELSE LET n == Len(rows)
             m == Len(rows[1])
         IN  [k \in 1..(n * m) |-> rows[((k - 1) % n) + 1][((k - 1) \div n) + 1]]

\* all entries of a matrix, row after row (ndarray.flatten())
RECURSIVE Flatten(_)
Flatten(rows) == IF rows = << >> THEN << >> ELSE Head(rows) \o Flatten(Tail(rows))

\* error_func: mean squared error of the flattened matrices, as a fraction
error_func(actual, predicted) ==
    LET a == Flatten(actual.values)
        q == Flatten(predicted)
        d == q[1].den
    IN  [num |-> SeqSum([k \in DOMAIN a |->
                    (d * a[k] - q[k].num) * (d * a[k] - q[k].num)]),
         den |-> d * d * Len(a)]

\* error > 0.006, in thousandths
OutlierThresholdMilli == 6

\* Line 138.  A value v of the model is v/100, so error is (num/den)/10000.
ErrorExceeds(error) ==
    error.num * 1000 > OutlierThresholdMilli * error.den * 10000

----------------------------------------------------------------------------
(* Fold partition: sklearn.model_selection.KFold as both scripts call it *)

\* Faulty variant of KFoldSizes: the remainder n_samples % n_splits is not handed out.
KFoldSizesNoRemainder(n_splits, n_samples) ==
    [k \in 1..n_splits |-> n_samples \div n_splits]

\* fold_sizes of KFold: n_samples // n_splits each, the first
\* n_samples % n_splits folds one larger
KFoldSizes(n_splits, n_samples) ==
    [k \in 1..n_splits |->
        (n_samples \div n_splits) + (IF k <= n_samples % n_splits THEN 1 ELSE 0)]

\* KFold(n_splits, ...).split(...) over n_samples samples.  order is
\* arange(n_samples), shuffled when shuffle=True; fold k tests the k-th
\* consecutive slice of order; both index arrays come out ascending.
KFoldSplit(n_splits, n_samples, order) ==
    IF n_splits <= 1 \/ n_splits > n_samples
    THEN [raised |-> "ValueError", folds |-> << >>]
    ELSE LET sizes == KFoldSizes(n_splits, n_samples)
             start(k) == SeqSum(SubSeq(sizes, 1, k - 1))
             held(k)  == { order[q] : q \in (start(k) + 1)..(start(k) + sizes[k]) }
             all      == Arange(0, n_samples)
         IN  [raised |-> "none",
              folds  |-> [k \in 1..n_splits |->
                  [train |-> Take(all, WhereTrue(
                                [q \in DOMAIN all |-> all[q] \notin held(k)], 1)),
                   test  |-> Take(all, WhereTrue(
                                [q \in DOMAIN all |-> all[q] \in held(k)], 1))]]]

----------------------------------------------------------------------------
(* Outlier Filter: src/Team 17/main.py, preprocessing, lines 126-150 *)

\* Lines 133-137 for one fold: the error of the model fitted on the fold's
\* train rows, measured on its test rows.
LooFold(xtra, ytra, part) ==
    LET x_train == Iloc(xtra, part.train)
        y_train == Iloc(ytra, part.train)
        x_test  == Iloc(xtra, part.test)
        y_test  == Iloc(ytra, part.test)
        model   == train_model(x_train, y_train)
    IN  IF model.raised # "none" THEN [raised |-> model.raised]
        ELSE LET y_pred == predict(x_test, model)
             IN  IF y_pred.raised # "none" THEN [raised |-> y_pred.raised]
                 ELSE [raised |-> "none",
                       error  |-> error_func(y_test, y_pred.values)]

\* Lines 138-141: what the fold leaves in error_samples.
RecordOutlier(samples, error, k) ==
    IF ErrorExceeds(error) THEN Append(samples, k) ELSE samples

\* Line 139: what the fold prints.
PrintOutlier(out, error, k) ==
    IF ErrorExceeds(error)
    THEN Append(out, [text |-> "CV Fold {}: MSE", cv_index |-> k, value |-> error])
    ELSE out

\* The loop of lines 132-141 from fold k (0-based) on.
RECURSIVE LooLoop(_, _, _, _, _, _)
LooLoop(xtra, ytra, folds, k, samples, out) ==
    IF k >= Len(folds)
    THEN [raised |-> "none", error_samples |-> samples, printed |-> out]
    ELSE LET r == LooFold(xtra, ytra, folds[k + 1])
         IN  IF r.raised # "none"
             THEN [raised |-> r.raised, error_samples |-> samples, printed |-> out]
             ELSE LooLoop(xtra, ytra, folds, k + 1,
                          RecordOutlier(samples, r.error, k),
                          PrintOutlier(out, r.error, k))

\* Faulty variant of DropOutliers: the rows are dropped by the labels the frame came
\* with (no reset_index).
DropOutliersByOldLabel(df, order) == FrameOfValues(DropRows(df, order))

\* Lines 144-149 for one frame
DropOutliers(df, order) == FrameOfValues(DropRows(ResetIndex(df), order))

\* Line 124: the test frame narrowed to the labels kept from the train frame
ProjectTest(xtst, labels) == SelectColumns(xtst, labels)

\* Faulty variant of ReturnTest: the recorded outlier positions are dropped from the
\* test frame as they are from the train frames.
ReturnTestDropping(xtst, order) == DropRows(ResetIndex(xtst), order)

\* Line 150: x_tst is returned as line 124 left it, whatever order holds.
ReturnTest(xtst, order) == xtst

\* Line 123: pandas refuses data whose width differs from the label count.
TrainFrame(xarr, labels, origin) ==
    IF xarr # << >> /\ Len(xarr[1]) # Len(labels)
    THEN [raised |-> "ValueError"]
    ELSE [raised |-> "none", frame |-> FrameOfArray(xarr, labels, origin)]

----------------------------------------------------------------------------
(* preprocessing(x_tra, y_tra, x_tst) as one call *)

\* The call either raises (and prints what it printed before) or returns its
\* three frames.
preprocessing(xtra, ytra, xtst) ==
    IF NRows(xtra) = 0 THEN [raised |-> "IndexError", printed |-> << >>]
    ELSE
    Apply(LAMBDA r :
      Apply(LAMBDA e :
        IF e.raised # "none" THEN [raised |-> e.raised, printed |-> << >>]
        ELSE
        Apply(LAMBDA f :
          IF f.raised # "none" THEN [raised |-> f.raised, printed |-> << >>]
          ELSE
          Apply(LAMBDA kf :
            IF kf.raised # "none" THEN [raised |-> kf.raised, printed |-> << >>]
            ELSE
            Apply(LAMBDA loo :
              IF loo.raised # "none"
              THEN [raised |-> loo.raised, printed |-> loo.printed]
              ELSE [raised           |-> "none",
                    printed          |-> loo.printed,
                    x_tra            |-> DropOutliers(f.frame, loo.error_samples),
                    y_tra            |-> DropOutliers(ytra, loo.error_samples),
                    x_tst            |-> ReturnTest(
                                            ProjectTest(xtst, r.selected_columns),
                                            loo.error_samples),
                    selected_columns |-> r.selected_columns,
                    error_samples    |-> loo.error_samples],
              LooLoop(f.frame, ytra, kf.folds, 0, << >>, << >>)),
            KFoldSplit(NRows(f.frame), NRows(f.frame), Arange(0, NRows(f.frame)))),
          TrainFrame(e.x, r.selected_columns, r.t0.origin)),
        EliminatorLoop(r.t0.values, r.t1_temp.values, r.selected_columns, 0,
                       Len(r.t0.values[1]))),
      FeatureReducer(xtra, ytra, xtst))

----------------------------------------------------------------------------
(* Output Writer: write_output of team15.py (156-166) and of main.py (217-235) *)

\* A prediction is a fraction [num, den], den > 0, of value num/den.

\* C's %f: the value to six decimals, correctly rounded (ties to even), as the
\* integer count of millionths the text spells.
FormatF(v) ==
    LET scaled == v.num * 1000000
        q      == scaled \div v.den
        rem    == scaled - q * v.den
    IN  IF 2 * rem > v.den THEN q + 1
        ELSE IF 2 * rem = v.den THEN (IF q % 2 = 0 THEN q ELSE q + 1)
        ELSE q

\* np.dstack((ids, predictions))[0]: one (id, prediction) row per element
DStack(ids, flat) == [k \in DOMAIN flat |-> <<ids[k], flat[k]>>]

\* Team 15, lines 165-166: np.savetxt(..., "%d,%f", header="ID, predicted");
\* savetxt starts the header line with "# ".
write_output15(preds) ==
    LET flat  == Flatten(preds)
        ids   == [k \in DOMAIN flat |-> Arange(1, Len(flat) + 1)[k] - 1]
        table == DStack(ids, flat)
    IN  [header |-> "# ID, predicted",
         rows   |-> [k \in DOMAIN table |->
                        [ID        |-> table[k][1],
                         predicted |-> [text6 |-> FormatF(table[k][2])]]]]

\* DataFrame.melt(): one (variable, value) row per cell, column after column
RECURSIVE Melt(_, _)
Melt(df, c) ==
    IF c > NCols(df) THEN << >>
    ELSE [r \in 1..NRows(df) |->
             [variable |-> df.columns[c], value |-> df.values[r][c]]]
         \o Melt(df, c + 1)

\* Team 17, lines 227-235: flatten, one-column frame, melt, drop 'variable',
\* rename 'value', name the index 'ID', to_csv (which writes a float so that
\* reading it gives the float back).
write_output17(preds) ==
    LET meltedDF == Flatten(preds)
        kaglexd  == FrameOfArray([k \in DOMAIN meltedDF |-> <<meltedDF[k]>>],
                                 <<0>>, <<0>>)
        melted   == Melt(kaglexd, 1)
    IN  [header |-> "ID,predicted",
         rows   |-> [k \in DOMAIN melted |->
                        [ID        |-> k - 1,
                         predicted |-> [repr |-> melted[k].value]]]]

----------------------------------------------------------------------------
(* The writers on drawn prediction matrices *)

\* Largest number of rows of a drawn prediction matrix.
WriterMaxRows == 2

\* Widths of the drawn prediction matrices.
WriterWidths == {1, 2}

\* 1/3, 1/8 (six decimals hold it), 1/128 (a tie in the seventh decimal),
\* -2/3, 5
PredictionValues ==
    { [num |-> 1, den |-> 3], [num |-> 1, den |-> 8], [num |-> 1, den |-> 128],
      [num |-> -2, den |-> 3], [num |-> 5, den |-> 1] }

\* A name nothing is bound to yet.
Null == << >>

\* No preprocessing call is running.
PreIdle ==
    /\ call = Null /\ x_tra = Null /\ y_tra = Null /\ x_tst = Null
    /\ columns = Null /\ selected_columns = Null /\ t1_temp = Null
    /\ x = Null /\ i = 0 /\ error_samples = << >> /\ cv_index = 0

InitWriter ==
    \E n \in 1..WriterMaxRows, m \in WriterWidths :
        \E preds \in [1..n -> [1..m -> PredictionValues]] :
            /\ predictions = preds
            /\ pc = "predicted"
            /\ file = Null
            /\ raised = "none" /\ stdout = << >>
            /\ team \in {15, 17}
            /\ data = Null /\ indices = Null /\ alt = Null /\ fold = 0
            /\ metrics = Null /\ log = << >> /\ split = Null
            /\ PreIdle

\* team15.py line 174
WriteOutput15 ==
    /\ pc = "predicted"
    /\ team = 15
    /\ file' = write_output15(predictions)
    /\ pc' = "written"
    /\ UNCHANGED <<raised, stdout, preVars, team, data, indices, alt, fold, metrics,
                   predictions, log, split>>

\* main.py line 248
WriteOutput17 ==
    /\ pc = "predicted"
    /\ team = 17
    /\ file' = write_output17(predictions)
    /\ pc' = "written"
    /\ UNCHANGED <<raised, stdout, preVars, team, data, indices, alt, fold, metrics,
                   predictions, log, split>>

NextWriter == WriteOutput15 \/ WriteOutput17

SpecWriter == InitWriter /\ [][NextWriter]_vars

----------------------------------------------------------------------------
(* The fold partitions on drawn sample counts and shuffles *)

\* Largest sample count of a drawn partition.
SplitMaxSamples == 6

\* every order the seeded shuffle can leave arange(n) in
Shuffles(n) == { [k \in 1..n |-> perm[k] - 1] : perm \in Permutations(1..n) }

InitSplit ==
    \E n \in 2..SplitMaxSamples :
        \E order \in Shuffles(n) :
            /\ indices = order
            /\ split = Null
            /\ pc = "unsplit"
            /\ raised = "none" /\ stdout = << >>
            /\ team = 17 /\ data = Null /\ alt = Null /\ fold = 0
            /\ metrics = Null /\ predictions = Null /\ file = Null /\ log = << >>
            /\ PreIdle

\* main.py lines 195-196 and team15.py lines 91-92:
\* KFold(n_splits=5, shuffle=True, random_state=1).split(X)
SplitFiveFold ==
    /\ pc = "unsplit"
    /\ split' = KFoldSplit(5, Len(indices), indices)
    /\ raised' = split'.raised
    /\ pc' = IF split'.raised = "none" THEN "kfold" ELSE "raised"
    /\ UNCHANGED <<stdout, preVars, mainVars>>

\* main.py lines 129-130: KFold(n_splits=n, shuffle=False).split(range(n))
SplitLeaveOneOut ==
    /\ pc = "unsplit"
    /\ split' = KFoldSplit(Len(indices), Len(indices), Arange(0, Len(indices)))
    /\ raised' = split'.raised
    /\ pc' = IF split'.raised = "none" THEN "loo" ELSE "raised"
    /\ UNCHANGED <<stdout, preVars, mainVars>>

NextSplit == SplitFiveFold \/ SplitLeaveOneOut

SpecSplit == InitSplit /\ [][NextSplit]_vars

----------------------------------------------------------------------------
(* Metrics: sklearn's mean_absolute_error and scipy's pearsonr *)

\* mean |prediction - actual| over all cells, as a fraction
mean_absolute_error(predicted, actual) ==
    LET a == Flatten(actual)
        q == Flatten(predicted)
        d == q[1].den
    IN  [num |-> SeqSum([k \in DOMAIN a |-> Abs(d * a[k] - q[k].num)]),
         den |-> d * Len(a)]

\* pearsonr(...)[0] of two flat arrays, as the moments of Moments; the
\* predictions share one denominator, which r does not depend on
pearsonr(predicted, actual) ==
    Moments([k \in DOMAIN predicted |-> predicted[k].num], actual)

----------------------------------------------------------------------------
(* One iteration of the two cross-validation loops *)

\* The model of a fold that never reached its fit.
NotFitted == [raised |-> "not fitted"]

\* What an iteration that raised leaves behind.
FoldFailure(exc, out, fit, pred, dropped, model, called) ==
    [raised |-> exc, printed |-> out, fit_cols |-> fit, predict_cols |-> pred,
     outliers |-> dropped, model |-> model, paired |-> called,
     error |-> Null, mae |-> Null, pcc |-> Null]

\* main.py lines 199-207: slice, preprocess, fit, predict, score.  fit_cols and
\* predict_cols are the original column numbers of the matrices handed to fit
\* and to predict.
cross_validation_fold(X, Y, part) ==
    LET x_train == Iloc(X, part.train)
        y_train == Iloc(Y, part.train)
        x_test  == Iloc(X, part.test)
        y_test  == Iloc(Y, part.test)
    IN  Apply(LAMBDA p :
          IF p.raised # "none"
          THEN FoldFailure(p.raised, p.printed, << >>, << >>, << >>, NotFitted, FALSE)
          ELSE
          Apply(LAMBDA model :
            IF model.raised # "none"
            THEN FoldFailure(model.raised, p.printed, p.x_tra.origin, << >>,
                             p.error_samples, NotFitted, FALSE)
            ELSE
            Apply(LAMBDA y_pred :
              IF y_pred.raised # "none"
              THEN FoldFailure(y_pred.raised, p.printed, p.x_tra.origin,
                               p.x_tst.origin, p.error_samples, model, TRUE)
              ELSE [raised       |-> "none",
                    printed      |-> p.printed,
                    fit_cols     |-> p.x_tra.origin,
                    predict_cols |-> p.x_tst.origin,
                    outliers     |-> p.error_samples,
                    model        |-> model,
                    paired       |-> TRUE,
                    error        |-> error_func(y_test, y_pred.values),
                    mae          |-> mean_absolute_error(y_pred.values, y_test.values),
                    pcc          |-> pearsonr(Flatten(y_pred.values),
                                              Flatten(y_test.values))],
              predict(p.x_tst, model)),
            train_model(p.x_tra, p.y_tra)),
          preprocessing(x_train, y_train, x_test))

\* X.T.drop_duplicates(keep='first').T: a column stays unless an earlier column
\* holds the same value in every row of the frame.
DropDuplicateColumns(df) ==
    LET keep == [c \in 1..NCols(df) |->
                    \A b \in 1..(c - 1) : Column(df.values, b) # Column(df.values, c)]
        pos  == WhereTrue(keep, 1)
    IN  [columns |-> Take(df.columns, pos),
         index   |-> df.index,
         values  |-> [r \in DOMAIN df.values |-> Take(df.values[r], pos)],
         origin  |-> Take(df.origin, pos)]

\* team15.py lines 109-114: per-row MAE, a rule, per-row Pearson r, a rule
RowPrints(prediction, y_test) ==
    [r \in DOMAIN prediction |->
        [text  |-> "mean_absolute_error(prediction[i,:], y_test.values[i,:])",
         value |-> mean_absolute_error(<<prediction[r]>>, <<y_test.values[r]>>)]]
    \o <<[text |-> "----"]>>
    \o [r \in DOMAIN prediction |->
        [text  |-> "pearsonr(prediction[i,:], y_test.values[i,:])[0]",
         value |-> pearsonr(prediction[r], y_test.values[r])]]
    \o <<[text |-> "----"]>>

\* team15.py lines 94-114: slice, drop the duplicate columns of the train slice
\* and, separately, of the test slice, fit, predict, score, print.
cv5_fold(X, y, part) ==
    LET X_train == DropDuplicateColumns(Iloc(X, part.train))
        X_test  == DropDuplicateColumns(Iloc(X, part.test))
        y_train == Iloc(y, part.train)
        y_test  == Iloc(y, part.test)
        model   == train_model(X_train, y_train)
    IN  IF model.raised # "none"
        THEN FoldFailure(model.raised, << >>, X_train.origin, << >>, << >>,
                         NotFitted, FALSE)
        ELSE
        LET prediction == predict(X_test, model)
        IN  IF prediction.raised # "none"
            THEN FoldFailure(prediction.raised, << >>, X_train.origin,
                             X_test.origin, << >>, model, TRUE)
            ELSE [raised       |-> "none",
                  printed      |-> RowPrints(prediction.values, y_test),
                  fit_cols     |-> X_train.origin,
                  predict_cols |-> X_test.origin,
                  outliers     |-> << >>,
                  model        |-> model,
                  paired       |-> TRUE,
                  error        |-> error_func(y_test, prediction.values),
                  mae          |-> mean_absolute_error(prediction.values, y_test.values),
                  pcc          |-> pearsonr(Flatten(prediction.values),
                                            Flatten(y_test.values))]

\* Faulty variant of AfterFold: an exception of the loop body is swallowed and the loop
\* goes on.
AfterFoldSwallowing(run) == "cv"

\* Neither loop (main.py 198-208, team15.py 92-114) nor its caller holds a
\* try/except: an exception of the body ends the loop, the function and the
\* script.
AfterFold(run) == IF run.raised # "none" THEN "raised" ELSE "cv"

\* the frame with the rows at the given positions refilled: column c gets
\* fill.base + c * fill.step
AltRows(df, positions, fill) ==
    [df EXCEPT !.values = [r \in DOMAIN df.values |->
        IF (r - 1) \in Range(positions)
        THEN [c \in DOMAIN df.values[r] |-> fill.base + c * fill.step]
        ELSE df.values[r]]]

\* the selections and the model an iteration settled on
Decisions(run) ==
    [train_cols |-> run.fit_cols, test_cols |-> run.predict_cols,
     outliers |-> run.outliers, model |-> run.model]

\* the record the log keeps of one fit/predict pair; twin is the same
\* iteration on the data whose held-out rows are refilled
PairEntry(at, k, run, twin) ==
    [at |-> at, fold |-> k, raised |-> run.raised, paired |-> run.paired,
     fit_cols |-> run.fit_cols, predict_cols |-> run.predict_cols,
     decisions |-> Decisions(run), twin |-> Decisions(twin)]

\* predictions in hundredths as fractions of the unit
AsUnits(values) ==
    [r \in DOMAIN values |-> [c \in DOMAIN values[r] |->
        [num |-> values[r][c].num, den |-> values[r][c].den * 100]]]

----------------------------------------------------------------------------
(* The two scripts: main.py lines 240-248 and team15.py lines 168-180 *)

\* Largest number of training samples of a loaded data set.
MainMaxRows == 5

\* Column shapes of the loaded data sets.
MainShapes ==
    { <<"ramp", "flat">>, <<"ramp", "bent">>, <<"ramp", "step">>,
      <<"step", "alt">>, <<"ramp", "bent", "peak">>, <<"flat", "flat">> }

\* arange(n) rotated left by shift
Rotated(n, shift) == [k \in 1..n |-> (k - 1 + shift) % n]

\* Orders the seeded shuffle of KFold may leave arange(n) in.
MainShuffles(n) == { Rotated(n, 0), Rotated(n, 2), [k \in 1..n |-> n - k] }

\* Values the held-out rows are refilled with in the twin of an iteration.
Fills == { [base |-> 7, step |-> 0], [base |-> 1, step |-> 1] }

\* load_data: n training samples, the labels being the features with row
\* `row` (if any) raised, and two test samples
LoadedData(shapes, n, row) ==
    LET m == Len(shapes)
    IN  [train_t0 |-> Loaded(PatternRows(shapes, 1, n, n), m, Arange(0, n)),
         train_t1 |-> Loaded(SpikedRows(PatternRows(shapes, 1, n, n), row, 9), m,
                             Arange(0, n)),
         test_t0  |-> Loaded(PatternRows(shapes, n + 1, n + 2, n), m, Arange(0, 2))]

Init ==
    \E tm \in {15, 17}, shapes \in MainShapes, n \in 5..MainMaxRows :
        \E row \in 0..n, order \in MainShuffles(n), fill \in Fills :
            /\ team = tm
            /\ data = LoadedData(shapes, n, row)
            /\ indices = order
            /\ alt = fill
            /\ pc = "loaded"
            /\ fold = 0 /\ metrics = Null /\ predictions = Null /\ file = Null
            /\ log = << >> /\ split = Null
            /\ raised = "none" /\ stdout = << >>
            /\ PreIdle

\* main.py lines 188-196: the empty lists, cv_index = 1 and the 5-fold split
CrossValidationStart ==
    /\ team = 17
    /\ pc = "loaded"
    /\ split' = KFoldSplit(5, NRows(data.train_t0), indices)
    /\ metrics' = [errors |-> << >>, maes |-> << >>, pcc |-> << >>]
    /\ fold' = 0
    /\ raised' = split'.raised
    /\ pc' = IF split'.raised = "none" THEN "cv" ELSE "raised"
    /\ UNCHANGED <<stdout, preVars, team, data, indices, alt, predictions, file, log>>

\* main.py lines 198-208: one iteration of the loop of cross_validation
CrossValidationFold ==
    /\ team = 17
    /\ pc = "cv"
    /\ fold < Len(split.folds)
    /\ \E part \in {split.folds[fold + 1]} :
       \E run  \in {cross_validation_fold(data.train_t0, data.train_t1, part)},
          twin \in {cross_validation_fold(AltRows(data.train_t0, part.test, alt),
                                          AltRows(data.train_t1, part.test, alt), part)} :
           /\ stdout' = stdout \o run.printed
           /\ log' = Append(log, PairEntry("cv", fold, run, twin))
           /\ raised' = run.raised
           /\ pc' = AfterFold(run)
           /\ IF run.raised = "none"
              THEN /\ metrics' = [errors |-> Append(metrics.errors, run.error),
                                  maes   |-> Append(metrics.maes, run.mae),
                                  pcc    |-> Append(metrics.pcc, run.pcc)]
                   /\ fold' = fold + 1
              ELSE UNCHANGED <<metrics, fold>>
    /\ UNCHANGED <<preVars, team, data, indices, alt, predictions, file, split>>

\* main.py lines 209-215: the lists and their sums over 5; a quotient is kept
\* as the list it is taken of
CrossValidationReport ==
    /\ team = 17
    /\ pc = "cv"
    /\ fold = Len(split.folds)
    /\ stdout' = stdout \o
          << [text |-> "errors", value |-> metrics.errors],
             [text |-> "sum(errors)/5", value |-> metrics.errors],
             [text |-> "maes", value |-> metrics.maes],
             [text |-> "sum(maes)/5", value |-> metrics.maes],
             [text |-> "pcc", value |-> metrics.pcc],
             [text |-> "sum(pcc)/5", value |-> metrics.pcc] >>
    /\ pc' = "reported"
    /\ UNCHANGED <<raised, preVars, mainVars, split>>

\* main.py lines 246-247: preprocessing, train_model and predict on the whole
\* data
FinalPass17 ==
    /\ team = 17
    /\ pc = "reported"
    /\ \E p \in {preprocessing(data.train_t0, data.train_t1, data.test_t0)} :
           /\ stdout' = stdout \o p.printed
           /\ IF p.raised # "none"
              THEN /\ raised' = p.raised
                   /\ pc' = "raised"
                   /\ UNCHANGED <<x_tra, y_tra, x_tst, predictions, log>>
              ELSE LET model  == train_model(p.x_tra, p.y_tra)
                       y_pred == predict(p.x_tst, model)
                       exc    == IF model.raised # "none" THEN model.raised
                                 ELSE y_pred.raised
                   IN  /\ x_tra' = p.x_tra /\ y_tra' = p.y_tra /\ x_tst' = p.x_tst
                       /\ raised' = exc
                       /\ pc' = IF exc = "none" THEN "predicted" ELSE "raised"
                       /\ predictions' = IF exc = "none" THEN AsUnits(y_pred.values)
                                         ELSE predictions
                       /\ log' = IF model.raised # "none" THEN log
                                 ELSE Append(log,
                                        [at |-> "final", fold |-> 0, raised |-> exc,
                                         paired |-> TRUE,
                                         fit_cols |-> p.x_tra.origin,
                                         predict_cols |-> p.x_tst.origin])
    /\ UNCHANGED <<call, columns, selected_columns, t1_temp, x, i, error_samples,
                   cv_index, team, data, indices, alt, fold, metrics, file, split>>

\* team15.py lines 168-173: load, train_model and predict on the whole data
FinalPass15 ==
    /\ team = 15
    /\ pc = "loaded"
    /\ LET model  == train_model(data.train_t0, data.train_t1)
           y_pred == predict(data.test_t0, model)
           exc    == IF model.raised # "none" THEN model.raised ELSE y_pred.raised
       IN  /\ raised' = exc
           /\ pc' = IF exc = "none" THEN "predicted" ELSE "raised"
           /\ predictions' = IF exc = "none" THEN AsUnits(y_pred.values)
                             ELSE predictions
           /\ log' = IF model.raised # "none" THEN log
                     ELSE Append(log,
                            [at |-> "final", fold |-> 0, raised |-> exc,
                             paired |-> TRUE,
                             fit_cols |-> data.train_t0.origin,
                             predict_cols |-> data.test_t0.origin])
    /\ UNCHANGED <<stdout, preVars, team, data, indices, alt, fold, metrics, file,
                   split>>

\* team15.py lines 176-180 and 86-91: the files are loaded again, cv5 starts
\* with empty lists and the 5-fold split
Cv5Start ==
    /\ team = 15
    /\ pc = "written"
    /\ split' = KFoldSplit(5, NRows(data.train_t0), indices)
    /\ metrics' = [mse |-> << >>, mae |-> << >>, pear |-> << >>]
    /\ fold' = 0
    /\ raised' = split'.raised
    /\ pc' = IF split'.raised = "none" THEN "cv" ELSE "raised"
    /\ UNCHANGED <<stdout, preVars, team, data, indices, alt, predictions, file, log>>

\* team15.py lines 92-117: one iteration of the loop of cv5
Cv5Fold ==
    /\ team = 15
    /\ pc = "cv"
    /\ fold < Len(split.folds)
    /\ \E part \in {split.folds[fold + 1]} :
       \E run  \in {cv5_fold(data.train_t0, data.train_t1, part)},
          twin \in {cv5_fold(AltRows(data.train_t0, part.test, alt),
                             AltRows(data.train_t1, part.test, alt), part)} :
           /\ stdout' = stdout \o run.printed
           /\ log' = Append(log, PairEntry("cv", fold, run, twin))
           /\ raised' = run.raised
           /\ pc' = AfterFold(run)
           /\ IF run.raised = "none"
              THEN /\ metrics' = [mse  |-> Append(metrics.mse, run.error),
                                  mae  |-> Append(metrics.mae, run.mae),
                                  pear |-> Append(metrics.pear, run.pcc)]
                   /\ fold' = fold + 1
              ELSE UNCHANGED <<metrics, fold>>
    /\ UNCHANGED <<preVars, team, data, indices, alt, predictions, file, split>>

\* team15.py lines 119-129: the lists, their means and their deviations; a
\* mean or deviation is kept as the list it is taken of
Cv5Report ==
    /\ team = 15
    /\ pc = "cv"
    /\ fold = Len(split.folds)
    /\ stdout' = stdout \o
          << [text |-> "mses: ", value |-> metrics.mse],
             [text |-> "maes: ", value |-> metrics.mae],
             [text |-> "pears", value |-> metrics.pear],
             [text |-> "mse", value |-> metrics.mse],
             [text |-> "mae", value |-> metrics.mae],
             [text |-> "pear", value |-> metrics.pear],
             [text |-> "std mse", value |-> metrics.mse],
             [text |-> "std mae", value |-> metrics.mae],
             [text |-> "std pear", value |-> metrics.pear] >>
    /\ pc' = "reported"
    /\ UNCHANGED <<raised, preVars, mainVars, split>>

Next ==
    \/ CrossValidationStart
    \/ CrossValidationFold
    \/ CrossValidationReport
    \/ FinalPass17
    \/ WriteOutput17
    \/ FinalPass15
    \/ WriteOutput15
    \/ Cv5Start
    \/ Cv5Fold
    \/ Cv5Report

Spec == Init /\ [][Next]_vars

----------------------------------------------------------------------------
(* The Feature Reducer as a function, applied to its own output *)

\* The cross-validation scripts are not running.
MainIdle ==
    /\ team = 17 /\ data = Null /\ indices = Null /\ alt = Null /\ fold = 0
    /\ metrics = Null /\ predictions = Null /\ file = Null /\ log = << >>
    /\ split = Null /\ stdout = << >>

\* frames for a call: n training rows, two test rows, columns of the given shapes
ReducerInput(shapes, n) ==
    [x_tra |-> Loaded(PatternRows(shapes, 1, n, n), Len(shapes), Arange(0, n)),
     y_tra |-> Loaded(PatternRows(shapes, 1, n, n), Len(shapes), Arange(0, n)),
     x_tst |-> Loaded(PatternRows(shapes, n + 1, n + 2, n), Len(shapes), Arange(0, 2))]

InitReducer ==
    \E shapes \in ShapeSeqs(Patterns, RedMaxCols), n \in 3..RedMaxRows :
        /\ call = ReducerInput(shapes, n)
        /\ x_tra = call.x_tra /\ y_tra = call.y_tra /\ x_tst = call.x_tst
        /\ pc = "fresh"
        /\ columns = Null /\ selected_columns = Null /\ t1_temp = Null
        /\ x = Null /\ i = 0 /\ error_samples = << >> /\ cv_index = 0
        /\ raised = "none"
        /\ MainIdle

\* One application of lines 90-106 (and 124) to the current frames.
ApplyFeatureReducer ==
    /\ pc \in {"fresh", "once"}
    /\ LET r == FeatureReducer(x_tra, y_tra, x_tst)
       IN  /\ columns' = r.mask
           /\ selected_columns' = r.selected_columns
           /\ x_tra' = r.t0
           /\ y_tra' = r.t1_temp
           /\ x_tst' = r.x_tst
    /\ pc' = IF pc = "fresh" THEN "once" ELSE "twice"
    /\ UNCHANGED <<call, t1_temp, x, i, error_samples, cv_index, raised, stdout,
                   mainVars, split>>

NextReducer == ApplyFeatureReducer

SpecReducer == InitReducer /\ [][NextReducer]_vars

----------------------------------------------------------------------------
(* One call of preprocessing, statement group by statement group *)

\* Largest column count of the frames handed to a preprocessing call.
PreMaxCols == 2
\* Largest row count of the training frames handed to a preprocessing call.
PreMaxRows == 5

\* Column shapes of the frames handed to a preprocessing call.
PrePatterns == {"ramp", "bent", "flat", "step", "alt"}

\* Frames for a call: n training rows labelled base, base+1, ... (a slice of a
\* larger frame when base > 0), and two test rows.
PreInput(shapes, n, row, size, base) ==
    LET m == Len(shapes)
    IN  [x_tra |-> Loaded(PatternRows(shapes, 1, n, n), m, Arange(base, base + n)),
         y_tra |-> Loaded(SpikedRows(PatternRows(shapes, 1, n, n), row, size), m,
                          Arange(base, base + n)),
         x_tst |-> Loaded(PatternRows(shapes, n + 1, n + 2, n), m, Arange(0, 2))]

InitPre ==
    \E shapes \in ShapeSeqs(PrePatterns, PreMaxCols), n \in 4..PreMaxRows, row \in 0..PreMaxRows,
       size \in Spikes, base \in 0..1 :
        /\ row <= n
        /\ row = 0 => size = 9
        /\ call = PreInput(shapes, n, row, size, base)
        /\ x_tra = call.x_tra /\ y_tra = call.y_tra /\ x_tst = call.x_tst
        /\ pc = "start"
        /\ columns = Null /\ selected_columns = Null /\ t1_temp = Null
        /\ x = Null /\ i = 0 /\ error_samples = << >> /\ cv_index = 0
        /\ raised = "none"
        /\ MainIdle

\* numVars = len(x[0]), fixed at line 111
numVars == Len(selected_columns)

\* Lines 90-111
PreReduce ==
    /\ pc = "start"
    /\ LET r == FeatureReducer(x_tra, y_tra, x_tst)
       IN  /\ selected_columns' = r.selected_columns
           /\ columns' = r.selected_columns
           /\ t1_temp' = r.t1_temp
           /\ x' = r.t0.values
    /\ i' = 0
    /\ pc' = "eliminate"
    /\ UNCHANGED <<call, x_tra, y_tra, x_tst, error_samples, cv_index, raised,
                   stdout, mainVars, split>>

\* Lines 112-122, one iteration
PreEliminatePass ==
    /\ pc = "eliminate"
    /\ i < numVars
    /\ LET r == EliminatorPass(x, t1_temp.values, columns, i, numVars)
       IN  /\ x' = r.x
           /\ columns' = r.columns
           /\ raised' = r.raised
           /\ pc' = IF r.raised = "none" THEN "eliminate" ELSE "raised"
           /\ i' = IF r.raised = "none" THEN i + 1 ELSE i
    /\ UNCHANGED <<call, x_tra, y_tra, x_tst, selected_columns, t1_temp,
                   error_samples, cv_index, stdout, mainVars, split>>

\* Lines 123-130
PreFrames ==
    /\ pc = "eliminate"
    /\ i >= numVars
    /\ LET f  == TrainFrame(x, selected_columns,
                            SelectColumns(x_tra, selected_columns).origin)
           kf == KFoldSplit(Len(x), Len(x), Arange(0, Len(x)))
       IN  IF f.raised # "none"
           THEN /\ raised' = f.raised /\ pc' = "raised"
                /\ UNCHANGED <<x_tra, x_tst>>
           ELSE /\ x_tra' = f.frame
                /\ x_tst' = ProjectTest(x_tst, selected_columns)
                /\ raised' = kf.raised
                /\ pc' = IF kf.raised = "none" THEN "loo" ELSE "raised"
    /\ error_samples' = << >>
    /\ cv_index' = 0
    /\ UNCHANGED <<call, y_tra, columns, selected_columns, t1_temp, x, i, stdout,
                   mainVars, split>>

\* Lines 132-141, one fold
PreLooFold ==
    /\ pc = "loo"
    /\ cv_index < NRows(x_tra)
    /\ LET n  == NRows(x_tra)
           kf == KFoldSplit(n, n, Arange(0, n))
           r  == LooFold(x_tra, y_tra, kf.folds[cv_index + 1])
       IN  IF r.raised # "none"
           THEN /\ raised' = r.raised /\ pc' = "raised"
                /\ UNCHANGED <<error_samples, cv_index, stdout>>
           ELSE /\ error_samples' = RecordOutlier(error_samples, r.error, cv_index)
                /\ stdout' = PrintOutlier(stdout, r.error, cv_index)
                /\ cv_index' = cv_index + 1
                /\ UNCHANGED <<raised, pc>>
    /\ UNCHANGED <<call, x_tra, y_tra, x_tst, columns, selected_columns, t1_temp,
                   x, i, mainVars, split>>

\* Lines 143-150
PreReturn ==
    /\ pc = "loo"
    /\ cv_index >= NRows(x_tra)
    /\ x_tra' = DropOutliers(x_tra, error_samples)
    /\ y_tra' = DropOutliers(y_tra, error_samples)
    /\ x_tst' = ReturnTest(x_tst, error_samples)
    /\ pc' = "returned"
    /\ UNCHANGED <<call, columns, selected_columns, t1_temp, x, i,
                   error_samples, cv_index, raised, stdout, mainVars, split>>

NextPre == PreReduce \/ PreEliminatePass \/ PreFrames \/ PreLooFold \/ PreReturn

SpecPre == InitPre /\ [][NextPre]_vars

----------------------------------------------------------------------------
(* Claims about the Feature Reducer (specification SpecReducer) *)

InputCorr == Corr(call.x_tra)
InputCols == 1..NCols(call.x_tra)

\* Pearson's r of the entry is exactly 1 or exactly -1
PerfectlyCorrelated(e) == ~IsNaN(e) /\ e.c * e.c = e.va * e.vb

\* C2 as written: column j is removed exactly when some column a < j has
\* |corr(a,j)| >= 0.9 (so also when corr = -1), and the lowest-index column
\* is retained.
C2_RemovedIffAbsCorrelated ==
    pc = "once" =>
        /\ columns[1]
        /\ \A j \in InputCols :
              ~columns[j] <=>
                  \E a \in 1..(j - 1) :
                      AbsCorrAtLeast(InputCorr[a][j], CorrThresholdTenths)

\* C2 amended: column j is removed exactly when some column a < j has
\* corr(a,j) >= 0.9 with its sign; two columns with corr = +1 lose the
\* higher-index one; a pair with corr <= -0.9 removes nothing; when every pair
\* has corr < 0.9 every column survives; the lowest-index column is retained.
C2_RemovedIffCorrelated ==
    pc = "once" =>
        /\ columns[1]
        /\ \A j \in InputCols :
              ~columns[j] <=>
                  \E a \in 1..(j - 1) :
                      LET e == InputCorr[a][j]
                      IN  ~IsNaN(e) /\ e.c > 0 /\ 100 * e.c * e.c >= 81 * e.va * e.vb
        /\ \A j \in InputCols : \A a \in 1..(j - 1) :
              PerfectlyCorrelated(InputCorr[a][j]) /\ InputCorr[a][j].c > 0
                  => ~columns[j]
        /\ (\A j \in InputCols : \A a \in 1..(j - 1) :
                ~AbsCorrAtLeast(InputCorr[a][j], CorrThresholdTenths))
              => \A j \in InputCols : columns[j]
        /\ selected_columns = Take(call.x_tra.columns, WhereTrue(columns, 1))

\* A perfectly correlated pair lost its higher column while a pair with
\* corr = -1 kept both columns.
C2_Witness ==
    /\ pc = "once"
    /\ \E j \in InputCols : \E a \in 1..(j - 1) :
          /\ PerfectlyCorrelated(InputCorr[a][j]) /\ InputCorr[a][j].c > 0
          /\ columns[a] /\ ~columns[j]
    /\ \E j \in InputCols : \E a \in 1..(j - 1) :
          /\ PerfectlyCorrelated(InputCorr[a][j]) /\ InputCorr[a][j].c < 0
          /\ columns[a] /\ columns[j]

\* C6: a second application of the reducer to what the first returned removes
\* no column and leaves X, Y and X_test as they were.
C6_ReducerIdempotent ==
    [][pc = "once" =>
          /\ \A k \in DOMAIN columns' : columns'[k]
          /\ selected_columns' = selected_columns
          /\ x_tra' = x_tra /\ y_tra' = y_tra /\ x_tst' = x_tst]_vars

\* The reducer ran twice on an input with a chain: column b was removed because
\* of a, and b is the only column before c that c is correlated with.
C6_Witness ==
    /\ pc = "twice"
    /\ \E a, b, c \in InputCols :
          /\ a < b /\ b < c
          /\ HighlyCorrelated(InputCorr, a, b)
          /\ HighlyCorrelated(InputCorr, b, c)
          /\ \A d \in 1..(c - 1) : d # b => ~HighlyCorrelated(InputCorr, d, c)
          /\ NCols(x_tra) = NCols(call.x_tra) - 2

----------------------------------------------------------------------------
(* Claims about one preprocessing call (specification SpecPre) *)

\* the frames of lines 104-105 for the call's arguments
CallReduced == FeatureReducer(call.x_tra, call.y_tra, call.x_tst)

\* number of training samples of the call
CallRows == NRows(call.x_tra)

\* 0-based positions 0..n-1 without k, ascending
AllBut(k, n) == Take(Arange(0, n), WhereTrue([q \in 1..n |-> q # k + 1], 1))

\* the rows of a matrix at the given 0-based positions, as a frame
RowsAt(values, positions) ==
    FrameOfValues([columns |-> values[1], index |-> << >>, origin |-> values[1],
                   values  |-> [q \in DOMAIN positions |-> values[positions[q] + 1]]])

\* MSE on sample k of the model trained on the other samples exceeds 0.006;
\* the filter's feature matrix is the array x of line 108, its labels y_tra
SampleIsOutlier(k) ==
    LET others == AllBut(k, CallRows)
        model  == train_model(RowsAt(x, others), RowsAt(call.y_tra.values, others))
        y_pred == predict(RowsAt(x, <<k>>), model)
    IN  ErrorExceeds(error_func(RowsAt(call.y_tra.values, <<k>>), y_pred.values))

\* C3: leave-one-out runs n folds, fold k holding out exactly sample k; a sample
\* is dropped from the returned X and Y iff its held-out MSE exceeds 0.006; the
\* survivors keep their order and stay paired; 5 samples with one outlier
\* return 4 rows.
C3_OutlierFilter ==
    /\ (pc = "loo" /\ cv_index = 0) =>
          LET kf == KFoldSplit(CallRows, CallRows, Arange(0, CallRows))
          IN  /\ Len(kf.folds) = CallRows
              /\ \A k \in 0..(CallRows - 1) :
                    /\ kf.folds[k + 1].test = <<k>>
                    /\ kf.folds[k + 1].train = AllBut(k, CallRows)
    /\ (pc = "loo" /\ cv_index > 0) =>
          /\ cv_index <= CallRows
          /\ (cv_index - 1 \in Range(error_samples)) <=> SampleIsOutlier(cv_index - 1)
    /\ pc = "returned" =>
          LET kept == WhereTrue([q \in 1..CallRows |-> ~SampleIsOutlier(q - 1)], 1)
          IN  /\ cv_index = CallRows
              /\ x_tra.values = Take(x, kept)
              /\ y_tra.values = Take(call.y_tra.values, kept)
              /\ NRows(x_tra) = CallRows - Len(error_samples)
              /\ (CallRows = 5 /\ Len(error_samples) = 1)
                    => NRows(x_tra) = 4 /\ NRows(y_tra) = 4

\* Five samples whose row labels start at 1, exactly one of them (not the last)
\* an outlier: four rows came back.
C3_Witness ==
    /\ pc = "returned"
    /\ CallRows = 5
    /\ call.y_tra.index[1] = 1
    /\ Len(error_samples) = 1
    /\ error_samples[1] < 4
    /\ NRows(x_tra) = 4 /\ NRows(y_tra) = 4

\* number of columns of the array x
Width(xarr) == Len(xarr[1])

\* the p-value of iteration i of the OLS loop exceeds 0.05
PassPValueExceeds ==
    PValueExceeds(MaxPValue(PValues(Column(t1_temp.values, i + 1), Column(x, i + 1))))

C8_TestRowsKept ==
    /\ NRows(x_tst) = NRows(call.x_tst)
    /\ x_tst.index = call.x_tst.index
    /\ pc = "returned" =>
          LET pos == [k \in DOMAIN selected_columns |->
                         IndexOf(call.x_tst.columns, selected_columns[k], 1)]
          IN  \A r \in 1..NRows(call.x_tst) :
                  x_tst.values[r] = Take(call.x_tst.values[r], pos)

\* A call returned after recording the first training sample as an outlier.
C8_Witness ==
    /\ pc = "returned"
    /\ error_samples # << >>
    /\ error_samples[1] = 0
    /\ NRows(x_tra) < CallRows
    /\ NRows(x_tst) = 2

\* The call's steps agree with preprocessing taken as one function.
PreStepsAgree ==
    LET whole == preprocessing(call.x_tra, call.y_tra, call.x_tst)
    IN  /\ pc = "returned" =>
              /\ whole.raised = "none"
              /\ whole.x_tra = x_tra /\ whole.y_tra = y_tra /\ whole.x_tst = x_tst
              /\ whole.error_samples = error_samples
              /\ whole.printed = stdout
        /\ pc = "raised" => whole.raised = raised /\ whole.printed = stdout

----------------------------------------------------------------------------
(* Claims about the fold partitions (specification SpecSplit) *)

Samples == 0..(Len(indices) - 1)

\* C5: the five shuffled folds have pairwise disjoint test sets whose union is
\* every sample, each fold's train set is the complement of its test set, so
\* every sample is held out exactly once; leave-one-out has as many folds as
\* samples, each testing one sample.
C5_FoldPartition ==
    /\ pc = "kfold" =>
          /\ Len(split.folds) = 5
          /\ \A a, b \in 1..5 :
                a # b => Range(split.folds[a].test) \cap Range(split.folds[b].test) = {}
          /\ UNION { Range(split.folds[a].test) : a \in 1..5 } = Samples
          /\ \A s \in Samples :
                Cardinality({a \in 1..5 : s \in Range(split.folds[a].test)}) = 1
          /\ \A a \in 1..5 :
                /\ Range(split.folds[a].train) = Samples \ Range(split.folds[a].test)
                /\ Len(split.folds[a].train) + Len(split.folds[a].test) = Len(indices)
                /\ Cardinality(Range(split.folds[a].test)) = Len(split.folds[a].test)
    /\ pc = "loo" =>
          /\ Len(split.folds) = Len(indices)
          /\ \A a \in 1..Len(split.folds) : Len(split.folds[a].test) = 1

\* Six samples, shuffled out of order, were split in five: the first fold
\* holds out two of them.
C5_Witness ==
    /\ pc = "kfold"
    /\ Len(indices) = 6
    /\ indices # Arange(0, 6)
    /\ Len(split.folds[1].test) = 2
    /\ Len(split.folds[5].test) = 1

----------------------------------------------------------------------------
(* Claims about the writers (specification SpecWriter) *)

\* the value a written cell reads back as
ReadBack(cell) ==
    IF "text6" \in DOMAIN cell
    THEN [num |-> cell.text6, den |-> 1000000]
    ELSE cell.repr

SameValue(a, b) == a.num * b.den = b.num * a.den

\* |micro/1000000 - v| <= 1/2000000
WithinHalfMillionth(micro, v) ==
    2 * Abs(micro * v.den - v.num * 1000000) <= v.den

PredRows == Len(predictions)
PredCols == Len(predictions[1])

\* the file has N*M rows with IDs 0..N*M-1 in increasing order
RowsAndIds ==
    /\ Len(file.rows) = PredRows * PredCols
    /\ \A k \in DOMAIN file.rows : file.rows[k].ID = k - 1

\* C7 as written: N*M rows, IDs 0..N*M-1 in order, and the row with ID r*M + c
\* reads back as the prediction at row r, column c, for both writers.
C7_RoundTripExact ==
    pc = "written" =>
        /\ RowsAndIds
        /\ \A r \in 0..(PredRows - 1), c \in 0..(PredCols - 1) :
              SameValue(ReadBack(file.rows[r * PredCols + c + 1].predicted),
                        predictions[r + 1][c + 1])

\* C7 amended: N*M rows, IDs 0..N*M-1 in order, row-major; Team 17's row reads
\* back as the prediction itself, Team 15's as the prediction rounded to six
\* decimals (within half a millionth, and equal when six decimals hold it).
C7_RoundTripRounded ==
    pc = "written" =>
        /\ RowsAndIds
        /\ \A r \in 0..(PredRows - 1), c \in 0..(PredCols - 1) :
              LET cell == file.rows[r * PredCols + c + 1].predicted
                  v    == predictions[r + 1][c + 1]
              IN  /\ team = 17 => SameValue(ReadBack(cell), v)
                  /\ team = 15 =>
                        /\ WithinHalfMillionth(cell.text6, v)
                        /\ (1000000 * v.num) % v.den = 0 => SameValue(ReadBack(cell), v)

\* Team 15 wrote a 2 x 2 matrix whose off-diagonal entries differ and one of
\* which six decimals cannot hold.
C7_Witness ==
    /\ pc = "written"
    /\ team = 15
    /\ PredRows = 2 /\ PredCols = 2
    /\ predictions[1][2] # predictions[2][1]
    /\ predictions[1][2] = [num |-> 1, den |-> 3]
    /\ file.rows[2].predicted = [text6 |-> 333333]
    /\ file.rows[2].ID = 1

----------------------------------------------------------------------------
(* Claims about the two scripts (specification Spec) *)

\* the log entries of the cross-validation iterations
CvEntries == { k \in DOMAIN log : log[k].at = "cv" }

\* C1: for two runs that differ only in the values of a fold's held-out rows,
\* the columns kept for the train matrix, the columns kept for the test
\* matrix, the rows dropped as outliers and the fitted model of that fold are
\* the same, in cross_validation and in cv5.
C1_NoLeakage ==
    \A k \in CvEntries : log[k].decisions = log[k].twin

\* cv5 kept other test columns when only the held-out rows were refilled, the
\* train columns and the model being the same.
C1_Witness ==
    \E k \in CvEntries :
        /\ team = 15
        /\ log[k].decisions.test_cols # log[k].twin.test_cols
        /\ log[k].decisions.train_cols = log[k].twin.train_cols
        /\ log[k].decisions.model = log[k].twin.model

\* cross_validation alone: no decision of a fold changes with the held-out rows
NoLeakage17 ==
    team = 17 => \A k \in CvEntries : log[k].decisions = log[k].twin

\* C10: at every fit/predict pair, of a fold or of the final pass, the matrix
\* handed to predict has the columns of the matrix handed to fit, in the same
\* order.
C10_ColumnAligned ==
    \A k \in DOMAIN log :
        log[k].paired => log[k].predict_cols = log[k].fit_cols

\* cv5 predicted, without an error, on a matrix as wide as the fitted one but
\* of other columns.
C10_Witness ==
    \E k \in CvEntries :
        /\ team = 15
        /\ log[k].paired
        /\ log[k].raised = "none"
        /\ Len(log[k].predict_cols) = Len(log[k].fit_cols)
        /\ log[k].predict_cols # log[k].fit_cols

\* cross_validation, its final pass and Team 15's final pass keep the columns
\* aligned
ColumnAligned17 ==
    \A k \in DOMAIN log :
        (log[k].paired /\ (team = 17 \/ log[k].at = "final"))
            => log[k].predict_cols = log[k].fit_cols

\* the iteration the loop is about to run
CurrentFold ==
    IF team = 17
    THEN cross_validation_fold(data.train_t0, data.train_t1, split.folds[fold + 1])
    ELSE cv5_fold(data.train_t0, data.train_t1, split.folds[fold + 1])

\* preprocessing, fit or predict of the next iteration raises
CurrentFoldFails ==
    /\ pc = "cv"
    /\ fold < Len(split.folds)
    /\ CurrentFold.raised # "none"

AggregateTexts ==
    { "errors", "sum(errors)/5", "maes", "sum(maes)/5", "pcc", "sum(pcc)/5",
      "mses: ", "maes: ", "pears", "mse", "mae", "pear",
      "std mse", "std mae", "std pear" }

AggregatePrinted == \E k \in DOMAIN stdout : stdout[k].text \in AggregateTexts

\* some printed line names fold k (0-based, or 1-based as cv_index counts)
FoldNamed(k) ==
    \E q \in DOMAIN stdout :
        /\ "fold" \in DOMAIN stdout[q]
        /\ stdout[q].fold \in {k, k + 1}

\* the failed iteration is not run again, no later one is run and nothing
\* more happens: the per-fold lists stay as they were, no aggregate is printed
FoldFailureAborts ==
    /\ pc # "raised"
    /\ CurrentFoldFails =>
          /\ pc' = "raised"
          /\ raised' = CurrentFold.raised
          /\ fold' = fold
          /\ metrics' = metrics
          /\ ~AggregatePrinted'

\* C9 as written: a failing fold is not re-executed, no later fold is executed,
\* no aggregate metrics are reported, and the run reports which fold failed.
C9_AbortsAndReportsFold ==
    [][FoldFailureAborts /\ (CurrentFoldFails => FoldNamed(fold)')]_vars

\* C9 amended: a failing fold is not re-executed, no later fold is executed and
\* no aggregate metrics are reported; the exception leaves the script
\* uncaught, and nothing printed names the fold that failed.
C9_AbortsWithoutReport ==
    [][FoldFailureAborts /\ (CurrentFoldFails => ~FoldNamed(fold)')]_vars

\* The run stopped in an iteration after the first: the lists hold one entry
\* per completed fold and the last logged iteration is the one that raised.
C9_Witness ==
    /\ pc = "raised"
    /\ fold >= 1
    /\ fold < Len(split.folds)
    /\ Len(log) >= 1
    /\ log[Len(log)].at = "cv"
    /\ log[Len(log)].fold = fold
    /\ log[Len(log)].raised = raised
    /\ raised # "none"
    /\ ~AggregatePrinted

=============================================================================
